---- MODULE Spec2Model ----
(***************************************************************************)
(* Kids soundboard: the IndexedDB-backed DatabaseService                   *)
(* (src/src/database.service.ts) and the AppComponent that drives it and   *)
(* owns the MediaRecorder capture session (src/src/app.component.ts), and  *)
(* the service worker that caches the application (src/src/sw.js).        *)
(*                                                                         *)
(* The browser is single-threaded: every action below is one run-to-       *)
(* completion step: a handler up to the await that suspends it, or a       *)
(* browser event callback together with the promise continuations it       *)
(* releases.                                                               *)
(***************************************************************************)
EXTENDS Integers, Sequences, FiniteSets, TLC

\* ---------------------------------------------------------------- bounds
MaxKey == 2         \* records added per object store
MaxTasks == 2       \* handler invocations suspended on the database at once
MaxReloads == 1     \* page reloads (each constructs a new DatabaseService)
MaxStarts == 2      \* startRecording calls
MaxRequests == 2    \* fetch events the service worker handles
MaxUrls == 3        \* object URLs made before playItemSound is no longer called

\* ------------------------------------------------------------- constants
DB_VERSION == 1
CATEGORIES_STORE == "categories"
ITEMS_STORE == "items"

\* form inputs
Names == {"Animals"}
Pictures == {"png1"}

\* service worker (sw.js)
CACHE_NAME == "kids-soundboard-cache-v1"
urlsToCache == {"/", "/index.html"}
Urls == urlsToCache \cup {"/main.js"}
Bodies == {"v1", "v2", "206"}   \* what the server may answer with: two
                                \* versions of the resource, or a partial
                                \* response (status 206)

\* optional values (null | x)
None == <<>>
Some(x) == <<x>>
Get(o) == o[1]

VARIABLES
    \* --- IndexedDB of the origin (persists across reloads)
    idbVersion,          \* 0: the database does not exist yet
    objectStores,        \* object store name -> [records, keyGen, indexes, entries]
    createCount,         \* history: how often each store / index was created
    \* --- DatabaseService
    supported,           \* 'indexedDB' in window
    dbPromise,           \* [state, db]: the promise made by the constructor
    openRequest,         \* the IDBOpenDBRequest: "none" | "pending" | "done"
    opens,               \* history: indexedDB.open calls so far (names the handle)
    \* --- handler invocations suspended on a DatabaseService call
    tasks,
    txQueue,             \* tasks whose transaction is created, in creation order
    \* --- AppComponent signals
    currentView, categories, items, selectedCategory, isLoading,
    imageFile,
    deleteConfirmation, isDeleting,
    isRecording, recordedSoundBlob, recordedSoundUrl,
    \* --- AppComponent private fields
    mediaRecorder,       \* None | Some(recorder id)
    audioChunks,         \* the chunks pushed so far
    \* --- browser media subsystem
    gumPending,          \* getUserMedia requests not yet answered
    recorders,           \* the MediaRecorders made so far, each with its stream
    alerts,              \* history: alert() calls so far
    stopIgnored,         \* history: a stopRecording() call found nothing to stop
    urls,                \* history: object URLs created so far
    playing,             \* the object URLs of the Audio elements now playing
    revoked,             \* the object URLs released so far
    \* --- history
    reloads, starts,
    assignedCategoryIds, \* every id a categories add has returned
    lastAdded,           \* the record of the latest completed categories add
    lastDeletion,        \* the latest completed confirmDeletion
    lastError,           \* the latest error a DatabaseService call threw
    submitIgnored,       \* history: a submit handler found a field missing
    atReload,            \* the records the stores held at the latest reload
    staleRecorders,      \* history: the recorders made before the latest
                         \* form reset whose stop event is still to come
    \* --- service worker and Cache Storage
    swState,             \* "parsed" | "installing" | "installed" |
                         \* "activated" | "redundant"
    cacheNames,          \* the caches of the origin
    cache,               \* the cache CACHE_NAME: url -> None | Some(response)
    requests             \* the fetch events handled so far

idbVars == <<idbVersion, objectStores, createCount>>
svcVars == <<supported, dbPromise, openRequest, opens>>
taskVars == <<tasks, txQueue>>
viewVars == <<currentView, categories, items, selectedCategory, isLoading>>
formVars == <<imageFile, recordedSoundBlob, recordedSoundUrl, staleRecorders>>
recVars == <<isRecording, mediaRecorder, audioChunks>>
playVars == <<playing, revoked>>
mediaVars == <<gumPending, recorders, alerts, urls, stopIgnored, playVars>>
delVars == <<deleteConfirmation, isDeleting, lastDeletion>>
histVars == <<reloads, starts, assignedCategoryIds, lastAdded, atReload,
              submitIgnored>>
swVars == <<swState, cacheNames, cache, requests>>
appVars == <<idbVars, svcVars, taskVars, viewVars, formVars, delVars, recVars,
             mediaVars, histVars, lastError>>

vars == <<appVars, swVars>>

\* ------------------------------------------------------ IndexedDB engine

\* createObjectStore(name, {keyPath: 'id', autoIncrement: true})
EmptyStore == [records |-> {}, keyGen |-> 1, indexes |-> {}, entries |-> {}]

\* an index over the primary key (a faulty variant of IndexKey)
IndexKeyById(record) == record.id

\* the key the categoryId index extracts from a record (its keyPath)
IndexKey(record) == record.categoryId

\* a put under the key generator's current number, which is left where
\* it is (a faulty variant of StoreAdd: keys are handed out again)
StoreAddReusingKey(store, value) ==
    LET key == store.keyGen
        record == [value EXCEPT !.id = key]
    IN  [ok |-> TRUE, key |-> key,
         store |-> [store EXCEPT
             !.records = {r \in @ : r.id # key} \cup {record}]]

\* store.add(value) on a store with keyPath 'id' and autoIncrement: the key
\* generator's current number becomes the record's id and the generator
\* moves past it; a record already stored under that key makes the request
\* fail (ConstraintError)
StoreAdd(store, value) ==
    LET key == store.keyGen
        record == [value EXCEPT !.id = key]
    IN  IF \E r \in store.records : r.id = key
        THEN [ok |-> FALSE, key |-> 0, store |-> store]
        ELSE [ok |-> TRUE, key |-> key,
              store |-> [store EXCEPT
                  !.records = @ \cup {record},
                  !.keyGen = @ + 1,
                  !.entries = IF store.indexes = {} THEN @
                              ELSE @ \cup {<<IndexKey(record), key>>}]]

\* store.getAll()
StoreGetAll(store) == store.records

\* index.getAll(key): the records whose primary key the index lists under key
IndexGetAll(store, key) ==
    {r \in store.records : <<key, r.id>> \in store.entries}

\* createObjectStore(name): a store of that name must not exist yet
CreateObjectStore(stores, name) ==
    [n \in DOMAIN stores \cup {name} |->
        IF n = name THEN EmptyStore ELSE stores[n]]

\* itemStore.createIndex('categoryId', 'categoryId', {unique: false})
CreateIndex(stores, name, index) ==
    [stores EXCEPT ![name].indexes = @ \cup {index},
                   ![name].entries =
                       {<<IndexKey(r), r.id>> : r \in stores[name].records}]

\* request.onupgradeneeded: each store is created only when it is missing,
\* the index together with the items store
MissingStore(stores, name) == name \notin DOMAIN stores

UpgradeCreates(stores) ==
    (IF MissingStore(stores, CATEGORIES_STORE) THEN {CATEGORIES_STORE} ELSE {})
    \cup
    (IF MissingStore(stores, ITEMS_STORE) THEN {ITEMS_STORE, "categoryId"}
     ELSE {})

UpgradeStores(stores) ==
    LET s1 == IF CATEGORIES_STORE \in UpgradeCreates(stores)
              THEN CreateObjectStore(stores, CATEGORIES_STORE) ELSE stores
        s2 == IF ITEMS_STORE \in UpgradeCreates(stores)
              THEN CreateIndex(CreateObjectStore(s1, ITEMS_STORE),
                               ITEMS_STORE, "categoryId")
              ELSE s1
    IN  s2

\* indexedDB.open(DB_NAME, DB_VERSION) fires upgradeneeded when the stored
\* version is older than the requested one
UpgradeNeeded(version) == version < DB_VERSION

\* ------------------------------------------------------- DatabaseService

\* the constructor: rejects at once without IndexedDB, otherwise the
\* promise waits for the open request's success or error event
NewDbPromise(hasIndexedDB) ==
    IF hasIndexedDB THEN [state |-> "pending", db |-> 0]
    ELSE [state |-> "rejected", db |-> 0]

\* a connection of its own for every call (a faulty variant of GetStoreDb)
GetStoreOwnDb(promise) == promise.db + 1

\* getStore: const db = await this.dbPromise
GetStoreDb(promise) == promise.db

\* what the constructor rejects dbPromise with: the string of line 35, or
\* request.error of the open request
DbPromiseError(hasIndexedDB) ==
    IF hasIndexedDB THEN "OpenError" ELSE "IndexedDB not supported"

\* the object store and the mode of the transaction each method opens
OpStore(op) ==
    IF op \in {"getCategories", "addCategory"} THEN CATEGORIES_STORE
    ELSE ITEMS_STORE

OpMode(op) ==
    IF op \in {"addCategory", "addItem"} THEN "readwrite" ELSE "readonly"

\* ----------------------------------------------------------------- tasks
\* A task is a handler invocation suspended in `await this.dbService.op()`:
\*   awaitDb  getStore waits for dbPromise
\* (waited: the call was made before dbPromise settled)
\*   request  the transaction and the request exist, the engine has not run it
TaskIds == 1..MaxTasks

Free == [kind |-> "free", op |-> "", phase |-> "", categoryId |-> 0,
         value |-> None, category |-> None, db |-> 0, waited |-> FALSE]

NewTask(kind, op, categoryId, value, category) ==
    [kind |-> kind, op |-> op,
     phase |-> IF dbPromise.state = "resolved" THEN "request" ELSE "awaitDb",
     categoryId |-> categoryId, value |-> value, category |-> category,
     db |-> IF dbPromise.state = "resolved" THEN GetStoreDb(dbPromise) ELSE 0,
     waited |-> dbPromise.state # "resolved"]

FreeSlots(ts) == {t \in TaskIds : ts[t].kind = "free"}
FirstFree(ts) == CHOOSE t \in FreeSlots(ts) : \A u \in FreeSlots(ts) : t <= u

\* a handler calls a DatabaseService method and suspends on it; with
\* dbPromise rejected the await throws and the handler ends there
Call(kind, op, categoryId, value, category) ==
    IF dbPromise.state = "rejected"
    THEN /\ UNCHANGED taskVars
         /\ lastError' = Some(DbPromiseError(supported))
    ELSE /\ FreeSlots(tasks) # {}
         /\ LET t == FirstFree(tasks) IN
            /\ tasks' = [tasks EXCEPT
                   ![t] = NewTask(kind, op, categoryId, value, category)]
            /\ txQueue' = IF dbPromise.state = "resolved"
                          THEN Append(txQueue, t) ELSE txQueue
         /\ UNCHANGED lastError

Without(q, t) == SelectSeq(q, LAMBDA x : x # t)

\* IndexedDB runs transactions whose scopes overlap in creation order unless
\* both are readonly
Conflicts(op1, op2) ==
    /\ OpStore(op1) = OpStore(op2)
    /\ "readwrite" \in {OpMode(op1), OpMode(op2)}

MayRun(t) ==
    \A i \in 1..Len(txQueue) :
        (\E j \in (i+1)..Len(txQueue) : txQueue[j] = t)
            => ~Conflicts(tasks[txQueue[i]].op, tasks[t].op)

\* ------------------------------------------------------ capture session

\* new Blob(parts): the parts' bytes one after the other
RECURSIVE NewBlob(_)
NewBlob(parts) ==
    IF parts = <<>> THEN <<>> ELSE Head(parts) \o NewBlob(Tail(parts))

\* the data a recorder gathered, delivered with dataavailable when it stops
ChunkOf(r) == <<r>>

\* this.audioChunks.push(event.data)
PushChunk(chunks, data) == Append(chunks, data)

NewRecorder == [state |-> "recording", live |-> TRUE, events |-> <<>>]

\* mediaRecorder.stop(): the recorder goes inactive and the browser queues
\* the dataavailable event with the gathered data and then the stop event
StopRecorder(rec) ==
    IF rec.state = "recording"
    THEN [rec EXCEPT !.state = "inactive",
                     !.events = <<"dataavailable", "stop">>]
    ELSE rec

\* ------------------------------------------------------------------ Init
StoreNames == {CATEGORIES_STORE, ITEMS_STORE}

\* ngOnInit runs right after construction: loadCategories suspends on
\* getCategories, or ends there when dbPromise is already rejected
InitialTasks(promise) ==
    [t \in TaskIds |->
        IF t = 1 /\ promise.state = "pending"
        THEN [Free EXCEPT !.kind = "ngOnInit", !.op = "getCategories",
                          !.phase = "awaitDb", !.waited = TRUE]
        ELSE Free]

PageLoaded ==
    /\ dbPromise = NewDbPromise(supported)
    /\ openRequest = IF supported THEN "pending" ELSE "none"
    /\ tasks = InitialTasks(dbPromise)
    /\ txQueue = <<>>
    /\ currentView = "categories"
    /\ categories = {}
    /\ items = {}
    /\ selectedCategory = None
    /\ isLoading = TRUE
    /\ imageFile = None
    /\ recordedSoundBlob = None
    /\ recordedSoundUrl = None
    /\ isRecording = FALSE
    /\ mediaRecorder = None
    /\ audioChunks = <<>>
    /\ deleteConfirmation = None
    /\ isDeleting = FALSE
    /\ gumPending = 0
    /\ recorders = <<>>
    /\ playing = {}
    /\ staleRecorders = {}

Init ==
    /\ idbVersion = 0
    /\ objectStores = [n \in {} |-> EmptyStore]
    /\ createCount = [n \in StoreNames \cup {"categoryId"} |-> 0]
    /\ supported \in BOOLEAN
    /\ opens = IF supported THEN 1 ELSE 0
    /\ PageLoaded
    /\ alerts = 0
    /\ stopIgnored = FALSE
    /\ urls = 0
    /\ revoked = {}
    /\ lastError = IF supported THEN None ELSE Some(DbPromiseError(supported))
    /\ atReload = None
    /\ submitIgnored = FALSE
    /\ swState = "parsed"
    /\ cacheNames = {"kids-soundboard-cache-v0"}
    /\ cache = [u \in Urls |-> None]
    /\ requests = <<>>
    /\ reloads = 0
    /\ starts = 0
    /\ assignedCategoryIds = {}
    /\ lastAdded = None
    /\ lastDeletion = None

\* ------------------------------------------------- opening the database

\* an open that sets up both stores anew each time (a faulty variant of
\* OnUpgradeNeeded: no version check and no contains() check)
OnUpgradeRecreates ==
    /\ openRequest = "pending"
    /\ objectStores' = UpgradeStores([n \in {} |-> EmptyStore])
    /\ createCount' = [n \in DOMAIN createCount |-> createCount[n] + 1]
    /\ idbVersion' = DB_VERSION
    /\ UNCHANGED <<svcVars, taskVars, viewVars, formVars, delVars, recVars,
                   mediaVars, histVars, lastError, swVars>>

\* request.onupgradeneeded (database.service.ts 44-53), then the version is
\* stored; the success event follows in OnOpenSuccess
OnUpgradeNeeded ==
    /\ openRequest = "pending"
    /\ UpgradeNeeded(idbVersion)
    /\ objectStores' = UpgradeStores(objectStores)
    /\ createCount' = [n \in DOMAIN createCount |->
           IF n \in UpgradeCreates(objectStores) THEN createCount[n] + 1
           ELSE createCount[n]]
    /\ idbVersion' = DB_VERSION
    /\ UNCHANGED <<svcVars, taskVars, viewVars, formVars, delVars, recVars,
                   mediaVars, histVars, lastError, swVars>>

\* request.onsuccess: dbPromise resolves with the connection and every
\* getStore waiting on it goes on, in the order the calls were made
OnOpenSuccess ==
    /\ openRequest = "pending"
    /\ ~UpgradeNeeded(idbVersion)
    /\ openRequest' = "done"
    /\ dbPromise' = [state |-> "resolved", db |-> opens]
    /\ tasks' = [t \in TaskIds |->
           IF tasks[t].phase = "awaitDb"
           THEN [tasks[t] EXCEPT !.phase = "request",
                                 !.db = GetStoreDb(dbPromise')]
           ELSE tasks[t]]
    /\ txQueue' = LET RECURSIVE Waiting(_)
                      Waiting(t) ==
                          IF t > MaxTasks THEN <<>>
                          ELSE (IF tasks[t].phase = "awaitDb" THEN <<t>>
                                ELSE <<>>) \o Waiting(t + 1)
                  IN  txQueue \o Waiting(1)
    /\ UNCHANGED <<idbVars, supported, opens, viewVars, formVars, delVars,
                   recVars, mediaVars, histVars, lastError, swVars>>

\* request.onerror: dbPromise rejects, and every handler waiting on it ends
\* with that error
OnOpenError ==
    /\ openRequest = "pending"
    /\ openRequest' = "done"
    /\ dbPromise' = [state |-> "rejected", db |-> 0]
    /\ tasks' = [t \in TaskIds |->
           IF tasks[t].phase = "awaitDb" THEN Free ELSE tasks[t]]
    /\ lastError' = IF \E t \in TaskIds : tasks[t].phase = "awaitDb"
                    THEN Some(DbPromiseError(supported)) ELSE lastError
    /\ UNCHANGED <<idbVars, supported, opens, txQueue, viewVars, formVars,
                   delVars, recVars, mediaVars, histVars, swVars>>

\* ------------------------------------------------ AppComponent: handlers

\* resetFormState (imagePreview, which nothing reads back, is left out)
ResetFormState ==
    /\ imageFile' = None
    /\ recordedSoundBlob' = None
    /\ recordedSoundUrl' = None
    /\ staleRecorders' = {r \in DOMAIN recorders :
           recorders[r].state = "recording" \/ recorders[r].events # <<>>}

RecordsOf(name) ==
    IF name \in DOMAIN objectStores THEN objectStores[name].records ELSE {}

PendingAdds(op) ==
    Cardinality({t \in TaskIds :
        tasks[t].op = op /\ tasks[t].phase \in {"awaitDb", "request"}})

\* goHome / showAddCategoryForm / showAddItemForm
ShowView(view) ==
    /\ currentView' = view
    /\ ResetFormState
    /\ UNCHANGED <<idbVars, svcVars, taskVars, categories, items,
                   selectedCategory, isLoading, delVars, recVars, mediaVars,
                   histVars, lastError, swVars>>

\* onFileSelected with a file chosen
OnFileSelected(file) ==
    /\ imageFile' = Some(file)
    /\ UNCHANGED <<idbVars, svcVars, taskVars, viewVars, recordedSoundBlob,
                   recordedSoundUrl, staleRecorders, delVars, recVars,
                   mediaVars, histVars, lastError, swVars>>

\* selectCategory(category), up to `await this.dbService.getItems`
SelectCategory(category) ==
    /\ selectedCategory' = Some(category)
    /\ Call("selectCategory", "getItems", category.id, None, Some(category))
    /\ UNCHANGED <<idbVars, svcVars, currentView, categories, items,
                   isLoading, formVars, delVars, recVars, mediaVars, histVars,
                   swVars>>

\* addCategory(event), up to `await this.dbService.addCategory`
AddCategory(name) ==
    /\ Cardinality(RecordsOf(CATEGORIES_STORE)) + PendingAdds("addCategory")
           < MaxKey
    /\ IF name # "" /\ imageFile # None
       THEN /\ Call("addCategory", "addCategory", 0,
                    Some([id |-> 0, name |-> name,
                          picture |-> Get(imageFile)]),
                    None)
            /\ UNCHANGED submitIgnored
       ELSE /\ submitIgnored' = TRUE
            /\ UNCHANGED <<taskVars, lastError>>
    /\ UNCHANGED <<idbVars, svcVars, viewVars, formVars, delVars, recVars,
                   mediaVars, reloads, starts, assignedCategoryIds, lastAdded,
                   atReload, swVars>>

\* addItem(event), up to `await this.dbService.addItem`
AddItem(name) ==
    /\ Cardinality(RecordsOf(ITEMS_STORE)) + PendingAdds("addItem") < MaxKey
    /\ IF /\ name # "" /\ imageFile # None /\ recordedSoundBlob # None
          /\ selectedCategory # None
       THEN /\ Call("addItem", "addItem", 0,
                    Some([id |-> 0, categoryId |-> Get(selectedCategory).id,
                          name |-> name, picture |-> Get(imageFile),
                          sound |-> Get(recordedSoundBlob)]),
                    selectedCategory)
            /\ UNCHANGED submitIgnored
       ELSE /\ submitIgnored' = TRUE
            /\ UNCHANGED <<taskVars, lastError>>
    /\ UNCHANGED <<idbVars, svcVars, viewVars, formVars, delVars, recVars,
                   mediaVars, reloads, starts, assignedCategoryIds, lastAdded,
                   atReload, swVars>>

\* --------------------------------- the requests and their continuations
\* The engine runs the request of task t and its success (or error) event
\* is delivered: the service's promise settles and the suspended handler
\* runs on to its next await or to its end. The engine delivers the events
\* in the order it completed the requests, and nothing a handler does in
\* between reads the database, so the two are one step here.

Done(t) ==
    /\ tasks' = [tasks EXCEPT ![t] = Free]
    /\ txQueue' = Without(txQueue, t)

\* the handler of task t goes on to its next DatabaseService call
Then(t, kind, op, categoryId, category) ==
    /\ tasks' = [tasks EXCEPT ![t] =
           NewTask(kind, op, categoryId, None, category)]
    /\ txQueue' = Append(Without(txQueue, t), t)

\* getCategories() settles
RunGetCategories(t) ==
    /\ tasks[t].phase = "request" /\ tasks[t].op = "getCategories"
    /\ MayRun(t)
    /\ categories' = StoreGetAll(objectStores[CATEGORIES_STORE])
    /\ Done(t)
    /\ CASE tasks[t].kind = "ngOnInit" ->
              /\ isLoading' = FALSE
              /\ UNCHANGED <<currentView, formVars, delVars>>
         [] tasks[t].kind = "addCategory" ->
              \* loadCategories() returned: goHome()
              /\ currentView' = "categories"
              /\ ResetFormState
              /\ UNCHANGED <<isLoading, delVars>>
         [] tasks[t].kind = "confirmDeletion" ->
              \* loadCategories() returned: finally
              /\ isDeleting' = FALSE
              /\ deleteConfirmation' = None
              /\ lastDeletion' = tasks[t].value
              /\ UNCHANGED <<currentView, isLoading, formVars>>
    /\ UNCHANGED <<idbVars, svcVars, items, selectedCategory, recVars,
                   mediaVars, histVars, lastError, swVars>>

\* getItems(categoryId) settles
RunGetItems(t) ==
    /\ tasks[t].phase = "request" /\ tasks[t].op = "getItems"
    /\ MayRun(t)
    /\ items' = IndexGetAll(objectStores[ITEMS_STORE], tasks[t].categoryId)
    /\ Done(t)
    /\ CASE tasks[t].kind = "selectCategory" ->
              /\ currentView' = "items"
              /\ ResetFormState
              /\ UNCHANGED delVars
         [] tasks[t].kind = "confirmDeletion" ->
              /\ isDeleting' = FALSE
              /\ deleteConfirmation' = None
              /\ lastDeletion' = tasks[t].value
              /\ UNCHANGED <<currentView, formVars>>
    /\ UNCHANGED <<idbVars, svcVars, categories, selectedCategory, isLoading,
                   recVars, mediaVars, histVars, lastError, swVars>>

\* addCategory(category) settles; on success the handler goes on to
\* `await this.loadCategories()`, on error its await throws
RunAddCategory(t) ==
    /\ tasks[t].phase = "request" /\ tasks[t].op = "addCategory"
    /\ MayRun(t)
    /\ LET r == StoreAdd(objectStores[CATEGORIES_STORE], Get(tasks[t].value)) IN
       IF r.ok
       THEN /\ objectStores' = [objectStores EXCEPT ![CATEGORIES_STORE] = r.store]
            /\ Then(t, "addCategory", "getCategories", 0, None)
            /\ assignedCategoryIds' = assignedCategoryIds \cup {r.key}
            /\ lastAdded' = Some([Get(tasks[t].value) EXCEPT !.id = r.key])
            /\ UNCHANGED lastError
       ELSE /\ Done(t)
            /\ lastError' = Some("ConstraintError")
            /\ UNCHANGED <<objectStores, assignedCategoryIds, lastAdded>>
    /\ UNCHANGED <<idbVersion, createCount, svcVars, viewVars, formVars,
                   delVars, recVars, mediaVars, reloads, starts, atReload,
                   submitIgnored, swVars>>

\* addItem(item) settles; on success the handler calls
\* this.selectCategory(category), which suspends on getItems
RunAddItem(t) ==
    /\ tasks[t].phase = "request" /\ tasks[t].op = "addItem"
    /\ MayRun(t)
    /\ LET r == StoreAdd(objectStores[ITEMS_STORE], Get(tasks[t].value)) IN
       IF r.ok
       THEN /\ objectStores' = [objectStores EXCEPT ![ITEMS_STORE] = r.store]
            /\ selectedCategory' = tasks[t].category
            /\ Then(t, "selectCategory", "getItems",
                    Get(tasks[t].category).id, tasks[t].category)
            /\ UNCHANGED lastError
       ELSE /\ Done(t)
            /\ lastError' = Some("ConstraintError")
            /\ UNCHANGED <<objectStores, selectedCategory>>
    /\ UNCHANGED <<idbVersion, createCount, svcVars, currentView, categories,
                   items, isLoading, formVars, delVars, recVars, mediaVars,
                   histVars, swVars>>

\* new Promise((resolve, reject) => ...): the first call of resolve or
\* reject settles the promise, later calls do nothing
Pending == [state |-> "pending", value |-> None]

Resolve(p, value) ==
    IF p.state = "pending" THEN [state |-> "fulfilled", value |-> Some(value)]
    ELSE p

Reject(p, error) ==
    IF p.state = "pending" THEN [state |-> "rejected", value |-> Some(error)]
    ELSE p

\* a request whose error event nobody listens to (a faulty variant of
\* OnRequestError: the promise is left pending)
OnRequestErrorIgnored(p, error) == p

\* request.onerror = () => reject(request.error)
OnRequestError(p, error) == Reject(p, error)

\* the finally block of confirmDeletion, reached from its catch block
\* when the failed call was made by confirmDeletion
CatchAndFinally(t) ==
    IF tasks[t].kind = "confirmDeletion"
    THEN /\ isDeleting' = FALSE
         /\ deleteConfirmation' = None
         /\ lastDeletion' = tasks[t].value
    ELSE UNCHANGED delVars

\* The engine fails the request of task t (an I/O error, a full disk) and
\* its error event is delivered: the service's promise rejects with
\* request.error, the await of the suspended handler throws, and the
\* handler ends there; only confirmDeletion catches. Nothing is stored.
RequestFails(t) ==
    /\ tasks[t].phase = "request"
    /\ MayRun(t)
    /\ LET p == OnRequestError(Pending, "RequestError") IN
       IF p.state = "rejected"
       THEN /\ Done(t)
            /\ lastError' = p.value
            /\ CatchAndFinally(t)
       ELSE \* the promise stays pending and the handler suspended
            /\ tasks' = [tasks EXCEPT ![t].phase = "hung"]
            /\ txQueue' = Without(txQueue, t)
            /\ UNCHANGED <<lastError, delVars>>
    /\ UNCHANGED <<idbVars, svcVars, viewVars, formVars, recVars, mediaVars,
                   histVars, swVars>>

\* ------------------------------------------------------------- deletion

\* requestDeleteCategory / requestDeleteItem: only data.id is read later
RequestDelete(type, id) ==
    /\ type \in {"category", "item"}
    /\ deleteConfirmation' = Some([type |-> type, id |-> id])
    /\ UNCHANGED <<idbVars, svcVars, taskVars, viewVars, formVars, isDeleting,
                   lastDeletion, recVars, mediaVars, histVars, lastError,
                   swVars>>

CancelDeletion ==
    /\ deleteConfirmation' = None
    /\ UNCHANGED <<idbVars, svcVars, taskVars, viewVars, formVars, isDeleting,
                   lastDeletion, recVars, mediaVars, histVars, lastError,
                   swVars>>

\* a delete that removes the record and, for a category, its items too (a
\* faulty variant of DeleteCall)
DeleteCallCascading(stores, type, id) ==
    [threw |-> FALSE,
     stores |->
        IF StoreNames \ DOMAIN stores # {} THEN stores
        ELSE IF type = "category"
        THEN [stores EXCEPT
                 ![CATEGORIES_STORE].records = {r \in @ : r.id # id},
                 ![ITEMS_STORE].records = {r \in @ : r.categoryId # id},
                 ![ITEMS_STORE].entries = {e \in @ : e[1] # id}]
        ELSE [stores EXCEPT
                 ![ITEMS_STORE].records = {r \in @ : r.id # id},
                 ![ITEMS_STORE].entries = {e \in @ : e[2] # id}]]

\* a confirmDeletion whose catch block is not followed by a finally block
\* (a faulty variant of ConfirmDeletion: the flag set on entry stays set)
ConfirmDeletionNoFinally ==
    /\ deleteConfirmation # None
    /\ isDeleting' = TRUE
    /\ lastDeletion' = Some([type |-> Get(deleteConfirmation).type,
                             id |-> Get(deleteConfirmation).id,
                             failed |-> TRUE])
    /\ lastError' = Some("TypeError")
    /\ UNCHANGED <<idbVars, svcVars, taskVars, viewVars, formVars,
                   deleteConfirmation, recVars, mediaVars, histVars, swVars>>

\* this.dbService.deleteCategory(id) / this.dbService.deleteItem(id):
\* DatabaseService (database.service.ts 29-98) has no such member, so the
\* call throws a TypeError before anything is awaited and the stores stay
\* as they are
DeleteCall(stores, type, id) == [threw |-> TRUE, stores |-> stores]

\* what lastDeletion records of a confirmDeletion that has run to its end
Deletion(c, call) == Some([type |-> c.type, id |-> c.id, failed |-> call.threw])

\* confirmDeletion()
ConfirmDeletion ==
    /\ deleteConfirmation # None
    /\ LET c == Get(deleteConfirmation)
           call == DeleteCall(objectStores, c.type, c.id)
       IN  IF call.threw
           THEN \* catch: console.error; finally
                /\ isDeleting' = FALSE
                /\ deleteConfirmation' = None
                /\ lastDeletion' = Deletion(c, call)
                /\ lastError' = Some("TypeError")
                /\ UNCHANGED <<idbVars, taskVars>>
           ELSE \* the delete went through: reload the list shown
                /\ isDeleting' = TRUE
                /\ objectStores' = call.stores
                /\ IF c.type = "category"
                   THEN Call("confirmDeletion", "getCategories", 0,
                             Deletion(c, call), None)
                   ELSE /\ selectedCategory # None
                        /\ Call("confirmDeletion", "getItems",
                                Get(selectedCategory).id, Deletion(c, call),
                                None)
                /\ UNCHANGED <<idbVersion, createCount, deleteConfirmation,
                               lastDeletion>>
    /\ UNCHANGED <<svcVars, viewVars, formVars, recVars, mediaVars, histVars,
                   swVars>>

\* ------------------------------------------------------ audio recording

\* startRecording(), up to `await navigator.mediaDevices.getUserMedia`
StartRecording ==
    /\ starts < MaxStarts
    /\ starts' = starts + 1
    /\ gumPending' = gumPending + 1
    /\ UNCHANGED <<idbVars, svcVars, taskVars, viewVars, formVars, delVars,
                   recVars, recorders, alerts, urls, stopIgnored, playVars,
                   reloads, assignedCategoryIds, lastAdded, atReload,
                   submitIgnored, lastError, swVars>>

\* getUserMedia resolves with a stream: the rest of the try block
GetUserMediaGranted ==
    /\ gumPending > 0
    /\ gumPending' = gumPending - 1
    /\ isRecording' = TRUE
    /\ recordedSoundBlob' = None
    /\ recordedSoundUrl' = None
    /\ audioChunks' = <<>>
    /\ recorders' = Append(recorders, NewRecorder)
    /\ mediaRecorder' = Some(Len(recorders) + 1)
    /\ staleRecorders' = staleRecorders \ {Len(recorders) + 1}
    /\ UNCHANGED <<idbVars, svcVars, taskVars, viewVars, imageFile, delVars,
                   alerts, urls, stopIgnored, playVars, histVars, lastError,
                   swVars>>

\* a catch block that swallows the failure (a faulty variant of OnStartFailure)
OnStartFailureSilent(recording, alertCount) ==
    [isRecording |-> recording, alerts |-> alertCount]

\* the catch block of startRecording: console.error, alert(...),
\* isRecording.set(false)
OnStartFailure(recording, alertCount) ==
    [isRecording |-> FALSE, alerts |-> alertCount + 1]

\* getUserMedia rejects (permission denied, no device, device unreadable)
\* and the catch block runs
GetUserMediaRejected ==
    /\ gumPending > 0
    /\ gumPending' = gumPending - 1
    /\ alerts' = OnStartFailure(isRecording, alerts).alerts
    /\ isRecording' = OnStartFailure(isRecording, alerts).isRecording
    /\ UNCHANGED <<idbVars, svcVars, taskVars, viewVars, formVars, delVars,
                   mediaRecorder, audioChunks, recorders, urls, stopIgnored,
                   playVars, histVars, lastError, swVars>>

\* stops whatever recorder there is (a faulty variant of ShouldStop)
ShouldStopAnyRecorder(recorder, recording) == recorder # None

\* stopRecording(): nothing unless a recorder exists and isRecording is set
ShouldStop(recorder, recording) == recorder # None /\ recording

\* stopRecording()
StopRecording ==
    /\ IF ShouldStop(mediaRecorder, isRecording)
       THEN /\ recorders' = [recorders EXCEPT
                   ![Get(mediaRecorder)] = StopRecorder(@)]
            /\ isRecording' = FALSE
            /\ UNCHANGED stopIgnored
       ELSE /\ stopIgnored' = TRUE
            /\ UNCHANGED <<recorders, isRecording>>
    /\ UNCHANGED <<idbVars, svcVars, taskVars, viewVars, formVars, delVars,
                   mediaRecorder, audioChunks, gumPending, alerts, urls,
                   playVars, histVars, lastError, swVars>>

\* the dataavailable event of recorder r: mediaRecorder.ondataavailable
OnDataAvailable(r) ==
    /\ r \in 1..Len(recorders)
    /\ recorders[r].events # <<>>
    /\ Head(recorders[r].events) = "dataavailable"
    /\ recorders' = [recorders EXCEPT ![r].events = Tail(@)]
    /\ audioChunks' = PushChunk(audioChunks, ChunkOf(r))
    /\ UNCHANGED <<idbVars, svcVars, taskVars, viewVars, formVars, delVars,
                   isRecording, mediaRecorder, gumPending, alerts, urls,
                   stopIgnored, playVars, histVars, lastError, swVars>>

\* the stop event of recorder r: mediaRecorder.onstop, which closes over
\* the stream of its own startRecording call
OnStop(r) ==
    /\ r \in 1..Len(recorders)
    /\ recorders[r].events # <<>>
    /\ Head(recorders[r].events) = "stop"
    /\ recordedSoundBlob' = Some(NewBlob(audioChunks))
    /\ urls' = urls + 1
    /\ recordedSoundUrl' = Some(urls + 1)
    /\ recorders' = [recorders EXCEPT ![r].events = Tail(@),
                                      ![r].live = FALSE]
    /\ staleRecorders' = staleRecorders \ {r}
    /\ UNCHANGED <<idbVars, svcVars, taskVars, viewVars, imageFile, delVars,
                   recVars, gumPending, alerts, stopIgnored, playVars,
                   histVars, lastError, swVars>>

\* ------------------------------------------------------------- playback

\* playItemSound(soundBlob): an object URL is made for the blob and an
\* Audio element starts playing it
PlayItemSound(soundBlob) ==
    /\ urls < MaxUrls
    /\ urls' = urls + 1
    /\ playing' = playing \cup {urls + 1}
    /\ UNCHANGED <<idbVars, svcVars, taskVars, viewVars, formVars, delVars,
                   recVars, gumPending, recorders, alerts, stopIgnored,
                   revoked, histVars, lastError, swVars>>

\* audio.onended: URL.revokeObjectURL(url)
OnEnded(url) ==
    /\ url \in playing
    /\ playing' = playing \ {url}
    /\ revoked' = revoked \cup {url}
    /\ UNCHANGED <<idbVars, svcVars, taskVars, viewVars, formVars, delVars,
                   recVars, gumPending, recorders, alerts, stopIgnored, urls,
                   histVars, lastError, swVars>>

\* ---------------------------------------------------------------- reload
\* The page is loaded again: a new AppComponent and DatabaseService, the
\* database stays. Requests the engine had not run yet are dropped with
\* the page, and the browser releases the object URLs the page had made.
Reload ==
    /\ reloads < MaxReloads
    /\ reloads' = reloads + 1
    /\ opens' = IF supported THEN opens + 1 ELSE opens
    /\ dbPromise' = NewDbPromise(supported)
    /\ openRequest' = IF supported THEN "pending" ELSE "none"
    /\ tasks' = InitialTasks(dbPromise')
    /\ txQueue' = <<>>
    /\ currentView' = "categories"
    /\ categories' = {}
    /\ items' = {}
    /\ selectedCategory' = None
    /\ isLoading' = TRUE
    /\ ResetFormState
    /\ isRecording' = FALSE
    /\ mediaRecorder' = None
    /\ audioChunks' = <<>>
    /\ deleteConfirmation' = None
    /\ isDeleting' = FALSE
    /\ gumPending' = 0
    /\ recorders' = <<>>
    /\ playing' = {}
    /\ revoked' = 1..urls
    /\ lastError' = IF supported THEN lastError
                    ELSE Some(DbPromiseError(supported))
    /\ atReload' = Some([n \in StoreNames |-> RecordsOf(n)])
    /\ UNCHANGED <<idbVars, supported, lastDeletion, alerts, urls,
                   stopIgnored, starts, assignedCategoryIds, lastAdded,
                   submitIgnored, swVars>>

\* -------------------------------------------------------- service worker
\* A response is [url, body]; the client of a fetch that fails, or of a
\* respondWith that resolves with undefined, gets a network error.
NetworkError == [url |-> "", body |-> "network error"]

Response(url, body) == [url |-> url, body |-> body]

\* cache.match(request): the response stored for the request's URL; a
\* request whose method is not GET matches nothing
CacheMatch(c, url, method) == IF method = "GET" THEN c[url] ELSE None

\* a put that leaves an entry that is already there (a faulty variant of
\* CachePut: the cache is filled once and never refreshed)
CachePutIfAbsent(c, request, response) ==
    IF request.method = "GET" /\ response.body # "206"
       /\ c[request.url] = None
    THEN [c EXCEPT ![request.url] = Some(response)]
    ELSE c

\* the responses cache.put takes: not a partial one (status 206)
Storable(response) == response.body # "206"

\* cache.put(request, response): stored under the request's URL; for a
\* request whose method is not GET, and for a response it does not take,
\* the returned promise rejects and nothing is stored
CachePut(c, request, response) ==
    IF request.method = "GET" /\ Storable(response)
    THEN [c EXCEPT ![request.url] = Some(response)]
    ELSE c

\* response || fetchPromise
Respond(cached, fetched) == IF cached # None THEN cached ELSE fetched

\* a fallback to the cache entry of the request itself (a faulty variant of
\* NavigateFallback: caches.match(event.request))
NavigateFallbackToRequest(c, request) ==
    IF c[request.url] # None THEN c[request.url] ELSE Some(NetworkError)

\* fetch(event.request).catch(() => caches.match('/index.html')): undefined
\* when no cache holds it, which the client sees as a network error
NavigateFallback(c, request) ==
    IF c["/index.html"] # None THEN c["/index.html"] ELSE Some(NetworkError)

\* the install event: caches.open(CACHE_NAME), then cache.addAll starts
InstallEvent ==
    /\ swState = "parsed"
    /\ swState' = "installing"
    /\ cacheNames' = cacheNames \cup {CACHE_NAME}
    /\ UNCHANGED <<cache, requests, appVars>>

\* cache.addAll(urlsToCache) fetched every URL with status 200: all are
\* stored and the promise given to waitUntil resolves
AddAllSucceeds(body) ==
    /\ swState = "installing"
    /\ Storable(Response("/", body))
    /\ cache' = [u \in Urls |->
           IF u \in urlsToCache THEN Some(Response(u, body)) ELSE cache[u]]
    /\ swState' = "installed"
    /\ UNCHANGED <<cacheNames, requests, appVars>>

\* one of the fetches of cache.addAll failed: nothing is stored, the
\* promise rejects and the worker is discarded
AddAllFails ==
    /\ swState = "installing"
    /\ swState' = "redundant"
    /\ UNCHANGED <<cacheNames, cache, requests, appVars>>

\* the activate event: every cache but CACHE_NAME is deleted
ActivateEvent ==
    /\ swState = "installed"
    /\ swState' = "activated"
    /\ cacheNames' = {n \in cacheNames : n \in {CACHE_NAME}}
    /\ UNCHANGED <<cache, requests, appVars>>

\* the fetch event, up to the point where the handler waits for the
\* network: a navigation waits for fetch(); any other request is looked up
\* in the cache, its fetch() is started and a cached response is given to
\* the client at once
FetchEvent(url, mode, method) ==
    /\ swState = "activated"
    /\ Len(requests) < MaxRequests
    /\ requests' = Append(requests,
           [url |-> url, mode |-> mode, method |-> method,
            answered |-> IF mode = "navigate" THEN None
                         ELSE CacheMatch(cache, url, method),
            net |-> None])
    /\ UNCHANGED <<swState, cacheNames, cache, appVars>>

\* fetch(event.request) of request q resolves with the server's response
NetworkResponds(q, body) ==
    /\ q \in 1..Len(requests)
    /\ requests[q].net = None
    /\ LET r == requests[q]
           networkResponse == Response(r.url, body)
       IN  /\ requests' = [requests EXCEPT
                  ![q].net = Some(networkResponse),
                  ![q].answered =
                      IF r.mode = "navigate" THEN Some(networkResponse)
                      ELSE Respond(r.answered, Some(networkResponse))]
           /\ cache' = IF r.mode = "navigate" THEN cache
                       ELSE CachePut(cache, r, networkResponse)
    /\ UNCHANGED <<swState, cacheNames, appVars>>

\* fetch(event.request) of request q rejects
NetworkFails(q) ==
    /\ q \in 1..Len(requests)
    /\ requests[q].net = None
    /\ LET r == requests[q] IN
       requests' = [requests EXCEPT
           ![q].net = Some(NetworkError),
           ![q].answered =
               IF r.mode = "navigate" THEN NavigateFallback(cache, r)
               ELSE Respond(r.answered, Some(NetworkError))]
    /\ UNCHANGED <<swState, cacheNames, cache, appVars>>

\* ------------------------------------------------------------------ Next
Views == {"categories", "addCategory", "addItem"}

OpenNext ==
    \/ OnUpgradeNeeded
    \/ OnOpenSuccess
    \/ OnOpenError

CategoryNext ==
    \/ \E t \in TaskIds : RunGetCategories(t)
    \/ \E t \in TaskIds : RunAddCategory(t)
    \/ \E view \in Views : ShowView(view)
    \/ \E file \in Pictures : OnFileSelected(file)
    \/ \E name \in Names \cup {""} : AddCategory(name)

ItemNext ==
    \/ \E t \in TaskIds : RunGetItems(t)
    \/ \E t \in TaskIds : RunAddItem(t)
    \/ \E category \in categories : SelectCategory(category)
    \/ \E name \in Names \cup {""} : AddItem(name)

\* the two groups with every form filled in before it is submitted
FilledCategoryNext ==
    \/ \E t \in TaskIds : RunGetCategories(t)
    \/ \E t \in TaskIds : RunAddCategory(t)
    \/ \E view \in Views : ShowView(view)
    \/ \E file \in Pictures : OnFileSelected(file)
    \/ \E name \in Names : imageFile # None /\ AddCategory(name)

FilledItemNext ==
    \/ \E t \in TaskIds : RunGetItems(t)
    \/ \E t \in TaskIds : RunAddItem(t)
    \/ \E category \in categories : SelectCategory(category)
    \/ \E name \in Names :
           /\ imageFile # None
           /\ recordedSoundBlob # None
           /\ selectedCategory # None
           /\ AddItem(name)

DeleteNextOf(types) ==
    \/ \E type \in types, id \in 1..MaxKey : RequestDelete(type, id)
    \/ CancelDeletion
    \/ ConfirmDeletion

DeleteNext == DeleteNextOf({"category", "item"})

CaptureNext ==
    \/ StartRecording
    \/ GetUserMediaGranted
    \/ GetUserMediaRejected
    \/ StopRecording
    \/ \E r \in 1..MaxStarts : OnDataAvailable(r)
    \/ \E r \in 1..MaxStarts : OnStop(r)

\* one recording at a time, started when the last one is over, granted, and
\* stopped while it runs
CaptureIdle ==
    /\ gumPending = 0
    /\ ~isRecording
    /\ \A r \in 1..Len(recorders) :
           recorders[r].state = "inactive" /\ recorders[r].events = <<>>

OrderlyCaptureNext ==
    \/ CaptureIdle /\ StartRecording
    \/ GetUserMediaGranted
    \/ isRecording /\ StopRecording
    \/ \E r \in 1..MaxStarts : OnDataAvailable(r)
    \/ \E r \in 1..MaxStarts : OnStop(r)

FailureNext ==
    \E t \in TaskIds : RequestFails(t)

PlaybackNext ==
    \/ \E item \in items : PlayItemSound(item.sound)
    \/ \E url \in 1..(MaxUrls + MaxStarts) : OnEnded(url)

Modes == {"navigate", "no-cors"}
Methods == {"GET", "POST"}

ServiceWorkerNext ==
    \/ InstallEvent
    \/ \E body \in Bodies : AddAllSucceeds(body)
    \/ AddAllFails
    \/ ActivateEvent
    \/ \E url \in Urls, mode \in Modes, method \in Methods :
           FetchEvent(url, mode, method)
    \/ \E q \in 1..MaxRequests, body \in Bodies : NetworkResponds(q, body)
    \/ \E q \in 1..MaxRequests : NetworkFails(q)

Next ==
    \/ OpenNext
    \/ CategoryNext
    \/ ItemNext
    \/ DeleteNext
    \/ CaptureNext
    \/ Reload
    \/ FailureNext
    \/ PlaybackNext
    \/ ServiceWorkerNext

\* the whole application
Spec == Init /\ [][Next]_vars

\* the categories collection: adds, deletions and reloads
SpecCategories ==
    Init /\ [][OpenNext \/ FilledCategoryNext \/ DeleteNext \/ Reload]_vars

\* both collections and reloads, the sounds recorded one at a time
SpecItems ==
    Init /\ [][OpenNext \/ FilledCategoryNext \/ FilledItemNext
               \/ OrderlyCaptureNext \/ Reload]_vars

\* both collections and the deletion of categories
SpecCascade ==
    Init /\ [][OpenNext \/ FilledCategoryNext \/ FilledItemNext
               \/ OrderlyCaptureNext \/ DeleteNextOf({"category"})]_vars

\* the capture session, with the form resets and reloads around it
SpecCapture ==
    Init /\ [][CaptureNext \/ (\E view \in Views : ShowView(view)) \/ Reload]_vars

\* both collections with requests that fail
SpecFailures ==
    Init /\ [][OpenNext \/ FilledCategoryNext \/ FilledItemNext
               \/ OrderlyCaptureNext \/ FailureNext]_vars

\* both collections and the playback of the items shown
SpecPlayback ==
    Init /\ [][OpenNext \/ FilledCategoryNext \/ FilledItemNext
               \/ OrderlyCaptureNext \/ PlaybackNext]_vars

\* both forms, submitted filled in or not
SpecForms ==
    Init /\ [][OpenNext \/ CategoryNext \/ ItemNext \/ OrderlyCaptureNext]_vars

\* the service worker on its own
SpecServiceWorker == Init /\ [][ServiceWorkerNext]_vars

\* ---------------------------------------------------------------- claims

\* C1: every categories add that succeeds returns an id that no add has
\* returned before and that is greater than all of them, whatever adds,
\* deletions and reloads came first; the records already stored keep their
\* ids, and the store, which the next listCategories reads, holds a record
\* with the new id and the name and picture that were passed.
C1_FreshCategoryId ==
    [][\A t \in TaskIds :
          (RunAddCategory(t) /\ tasks'[t].op = "getCategories")
          => LET record == Get(lastAdded') IN
             /\ record.id \notin assignedCategoryIds
             /\ \A i \in assignedCategoryIds : i < record.id
             /\ record.name = Get(tasks[t].value).name
             /\ record.picture = Get(tasks[t].value).picture
             /\ record \in StoreGetAll(objectStores'[CATEGORIES_STORE])
             /\ StoreGetAll(objectStores[CATEGORIES_STORE])
                    \subseteq StoreGetAll(objectStores'[CATEGORIES_STORE])
      ]_vars

\* two categories added, a deletion confirmed and the page reloaded, the
\* second category shown in the list that was loaded after its add
C1_Witness ==
    /\ assignedCategoryIds = {1, 2}
    /\ reloads = 1
    /\ lastDeletion # None
    /\ lastAdded # None
    /\ Get(lastAdded).id = 2
    /\ Get(lastAdded) \in categories

\* C2: getItems(c) hands the component exactly the stored items whose
\* categoryId is c.
C2_GetItemsByCategory ==
    [][\A t \in TaskIds :
          RunGetItems(t)
          => items' = {r \in objectStores[ITEMS_STORE].records :
                          r.categoryId = tasks[t].categoryId}
      ]_vars

\* a non-empty list is shown while the store holds an item of another
\* category, which the list leaves out
C2_Witness ==
    /\ items # {}
    /\ items \subseteq RecordsOf(ITEMS_STORE)
    /\ \E r \in RecordsOf(ITEMS_STORE) :
           \A i \in items : i.categoryId # r.categoryId
    /\ \A t \in TaskIds : tasks[t].kind = "free"

\* C3: once a confirmed deletion of the category (item) with id x has run
\* to its end, no category (item) record with id x is in the store.
C3_DeletedRecordGone ==
    lastDeletion # None
    => LET d == Get(lastDeletion)
           store == IF d.type = "category" THEN CATEGORIES_STORE
                    ELSE ITEMS_STORE
       IN  \A r \in RecordsOf(store) : r.id # d.id

\* C4: confirming the deletion of a category leaves the items store, and
\* so what getItems returns for any category, as it was.
C4_NoCascade ==
    [][(/\ deleteConfirmation # None
        /\ Get(deleteConfirmation).type = "category"
        /\ ConfirmDeletion)
       => /\ DOMAIN objectStores' = DOMAIN objectStores
          /\ ITEMS_STORE \in DOMAIN objectStores
             => /\ objectStores'[ITEMS_STORE] = objectStores[ITEMS_STORE]
                /\ \A c \in 1..MaxKey :
                       IndexGetAll(objectStores'[ITEMS_STORE], c)
                           = IndexGetAll(objectStores[ITEMS_STORE], c)
      ]_vars

\* the deletion of a category has been confirmed and the store holds an
\* item of that category
C4_Witness ==
    /\ lastDeletion # None
    /\ Get(lastDeletion).type = "category"
    /\ \E r \in RecordsOf(ITEMS_STORE) : r.categoryId = Get(lastDeletion).id

\* C5: a confirmed deletion of an id that the open store does not hold
\* leaves both collections as they were and reports no failure.
C5_DeleteAbsentIsNoOp ==
    [][(/\ deleteConfirmation # None
        /\ dbPromise.state = "resolved"
        /\ LET c == Get(deleteConfirmation) IN
           \A r \in RecordsOf(IF c.type = "category" THEN CATEGORIES_STORE
                              ELSE ITEMS_STORE) : r.id # c.id
        /\ ConfirmDeletion)
       => /\ objectStores' = objectStores
          /\ lastDeletion' # None
          /\ ~Get(lastDeletion').failed
      ]_vars

\* C6: the blob a recorder's stop event produces is made of exactly the
\* chunks that recorder delivered, in the order they came.
C6_BlobIsOwnChunks ==
    [][\A r \in 1..MaxStarts :
          OnStop(r) => recordedSoundBlob' = Some(NewBlob(<<ChunkOf(r)>>))
      ]_vars

\* C7: when isRecording is off and no recorder has an event waiting, no
\* stream that was acquired still has a live track.
C7_TracksStopped ==
    (/\ ~isRecording
     /\ \A r \in 1..Len(recorders) : recorders[r].events = <<>>)
    => \A r \in 1..Len(recorders) : ~recorders[r].live

\* C8: stopRecording() called while isRecording is off changes nothing of
\* the session: isRecording, the chunk buffer, the blob and its URL, the
\* recorders and the pending microphone requests stay as they are.
C8_StopWhenIdleIsNoOp ==
    [][(StopRecording /\ ~isRecording)
       => UNCHANGED <<isRecording, audioChunks, recordedSoundBlob,
                      recordedSoundUrl, mediaRecorder, recorders, gumPending,
                      alerts, urls>>
      ]_vars

\* stopRecording() has found nothing to stop, and the session is not
\* recording although it has a recorder and a blob from an earlier stop
C8_Witness ==
    /\ stopIgnored
    /\ ~isRecording
    /\ mediaRecorder # None
    /\ recordedSoundBlob # None

C10_SingleConnection ==
    /\ opens = IF supported THEN reloads + 1 ELSE 0
    /\ dbPromise.state = "resolved" => dbPromise.db = opens
    /\ \A t \in TaskIds :
           tasks[t].phase = "request"
           => dbPromise.state = "resolved" /\ tasks[t].db = dbPromise.db
    /\ \A n \in DOMAIN createCount : createCount[n] <= 1

\* after a reload, two calls made before the open had returned have their
\* requests on the one connection
C10_Witness ==
    /\ reloads = 1
    /\ \A n \in DOMAIN createCount : createCount[n] = 1
    /\ Cardinality({t \in TaskIds :
           tasks[t].phase = "request" /\ tasks[t].waited}) = 2

\* C11: a submit with a required field missing (addCategory without name
\* or picture, addItem without name, picture, sound or selected category)
\* leaves both collections unchanged and fails with ValidationError.
C11_MissingFieldIsValidationError ==
    [][/\ \A name \in Names \cup {""} :
              (AddCategory(name) /\ (name = "" \/ imageFile = None))
              => /\ objectStores' = objectStores
                 /\ lastError' = Some("ValidationError")
       /\ \A name \in Names \cup {""} :
              (/\ AddItem(name)
               /\ \/ name = ""
                  \/ imageFile = None
                  \/ recordedSoundBlob = None
                  \/ selectedCategory = None)
              => /\ objectStores' = objectStores
                 /\ lastError' = Some("ValidationError")
      ]_vars

\* C12: every object URL made so far is released, unless it is the
\* preview of the recording the form now holds or an Audio element is
\* still playing it.
C12_UrlsReleased ==
    \A u \in 1..urls :
        \/ u \in revoked
        \/ u \in playing
        \/ recordedSoundUrl = Some(u)

\* C13: after a reload, the first listing of the categories returns
\* exactly the records the store held at the reload, and every later
\* getCategories and getItems(c) returns those records (for getItems: the
\* ones of category c) unchanged, next to the ones added since.
C13_ReloadPreservesRecords ==
    [][/\ \A t \in TaskIds :
              (RunGetCategories(t) /\ atReload # None)
              => LET before == Get(atReload)[CATEGORIES_STORE] IN
                 /\ {r \in categories' : r.id \in {b.id : b \in before}}
                        = before
                 /\ tasks[t].kind = "ngOnInit" => categories' = before
       /\ \A t \in TaskIds :
              (RunGetItems(t) /\ atReload # None)
              => LET before == Get(atReload)[ITEMS_STORE] IN
                 {r \in items' : r.id \in {b.id : b \in before}}
                     = {b \in before : b.categoryId = tasks[t].categoryId}
      ]_vars

\* the page was reloaded with an item stored, and the items view shows
\* that item, listed after the reload
C13_Witness ==
    /\ reloads = 1
    /\ atReload # None
    /\ Get(atReload)[ITEMS_STORE] # {}
    /\ Get(atReload)[CATEGORIES_STORE] \subseteq categories
    /\ currentView = "items"
    /\ items = Get(atReload)[ITEMS_STORE]

\* C14: a request that fails makes the call fail with the request's error:
\* the suspended handler is ended by it, the signals its continuation
\* would set stay as they are and nothing is stored; a failed open ends
\* every handler that waits for the database with the open's error, and a
\* later call fails with it at once; a request that succeeds hands its
\* result to the handler and raises no error.
C14_SettlesOnce ==
    [][/\ \A t \in TaskIds :
              RequestFails(t)
              => /\ tasks'[t] = Free
                 /\ lastError' = Some("RequestError")
                 /\ UNCHANGED <<objectStores, viewVars>>
       /\ OnOpenError
              => /\ \A t \in TaskIds :
                        tasks[t].phase = "awaitDb" => tasks'[t] = Free
                 /\ (\E t \in TaskIds : tasks[t].phase = "awaitDb")
                        => lastError' = Some("OpenError")
                 /\ UNCHANGED <<objectStores, viewVars>>
       /\ \A name \in Names :
              (/\ AddCategory(name)
               /\ imageFile # None
               /\ dbPromise.state = "rejected")
              => /\ lastError' = Some(DbPromiseError(supported))
                 /\ UNCHANGED <<objectStores, tasks, viewVars>>
       /\ \A t \in TaskIds :
              RunGetCategories(t)
              => /\ categories' = objectStores[CATEGORIES_STORE].records
                 /\ tasks'[t] = Free
                 /\ UNCHANGED lastError
       /\ \A t \in TaskIds :
              RunGetItems(t)
              => /\ items' \subseteq objectStores[ITEMS_STORE].records
                 /\ tasks'[t] = Free
                 /\ UNCHANGED lastError
       /\ \A t \in TaskIds :
              (RunAddCategory(t) \/ RunAddItem(t))
              => /\ tasks'[t].phase = "request"
                 /\ tasks'[t].op \in {"getCategories", "getItems"}
                 /\ UNCHANGED lastError
      ]_vars

\* an addItem request has failed after a category was stored: the handler
\* was ended by the error and the items store is empty
C14_Witness ==
    /\ lastError = Some("RequestError")
    /\ RecordsOf(CATEGORIES_STORE) # {}
    /\ RecordsOf(ITEMS_STORE) = {}
    /\ recordedSoundBlob # None
    /\ selectedCategory # None
    /\ currentView = "addItem"
    /\ \A t \in TaskIds : tasks[t].kind = "free"

\* C15 as stated: a request that is not a navigation is answered with the
\* response the cache holds for it, otherwise with the network response;
\* and the network response of every such request, when it arrives, is in
\* the cache under the request's URL.
C15_StaleWhileRevalidate ==
    [][/\ \A url \in Urls :
              FetchEvent(url, "no-cors", "GET")
              => requests'[Len(requests')].answered = cache[url]
       /\ \A q \in 1..MaxRequests, body \in Bodies :
              (NetworkResponds(q, body) /\ requests[q].mode # "navigate")
              => /\ cache'[requests[q].url]
                        = Some(Response(requests[q].url, body))
                 /\ requests'[q].answered =
                        IF requests[q].answered # None
                        THEN requests[q].answered
                        ELSE Some(Response(requests[q].url, body))
      ]_vars

\* C15 for what cache.put takes: a GET request that is not a navigation
\* is answered with the response the cache holds for its URL, or, when it
\* holds none, with the network response; and the network response of a
\* GET request, unless it is a partial one, is in the cache under the
\* request's URL once it has arrived, also when the request was answered
\* from the cache.
C15_StaleWhileRevalidateGet ==
    [][/\ \A url \in Urls :
              FetchEvent(url, "no-cors", "GET")
              => requests'[Len(requests')].answered = cache[url]
       /\ \A q \in 1..MaxRequests, body \in Bodies :
              (/\ NetworkResponds(q, body)
               /\ requests[q].mode # "navigate"
               /\ requests[q].method = "GET"
               /\ body # "206")
              => /\ cache'[requests[q].url]
                        = Some(Response(requests[q].url, body))
                 /\ requests'[q].answered =
                        IF requests[q].answered # None
                        THEN requests[q].answered
                        ELSE Some(Response(requests[q].url, body))
      ]_vars

\* a script was fetched from the network and stored; a second request for
\* it was answered with that stored response, and its own, different
\* network response has replaced it in the cache
C15_Witness ==
    /\ Len(requests) = 2
    /\ \A q \in 1..2 :
           /\ requests[q].url = "/main.js"
           /\ requests[q].mode = "no-cors"
           /\ requests[q].method = "GET"
           /\ requests[q].net # None
    /\ requests[1].answered = requests[1].net
    /\ requests[2].answered = requests[1].net
    /\ requests[2].net # requests[1].net
    /\ cache["/main.js"] = requests[2].net

\* C16: a navigation whose fetch succeeds is answered with the network
\* response; a navigation whose fetch fails is answered with the response
\* the cache holds for '/index.html', and the cache of an activated
\* worker always holds one.
C16_NetworkFirstNavigation ==
    [][/\ \A q \in 1..MaxRequests, body \in Bodies :
              (NetworkResponds(q, body) /\ requests[q].mode = "navigate")
              => requests'[q].answered
                     = Some(Response(requests[q].url, body))
       /\ \A q \in 1..MaxRequests :
              (NetworkFails(q) /\ requests[q].mode = "navigate")
              => /\ requests'[q].answered = cache["/index.html"]
                 /\ requests'[q].answered # None
                 /\ Get(requests'[q].answered).url = "/index.html"
      ]_vars

\* one navigation was answered by the network; another, to a URL the
\* cache does not hold, lost the network and got the cached /index.html
C16_Witness ==
    /\ Len(requests) = 2
    /\ requests[1].mode = "navigate"
    /\ requests[1].net # None
    /\ requests[1].net # Some(NetworkError)
    /\ requests[1].answered = requests[1].net
    /\ requests[2].mode = "navigate"
    /\ requests[2].url = "/main.js"
    /\ requests[2].net = Some(NetworkError)
    /\ requests[2].answered = cache["/index.html"]
    /\ cache["/main.js"] = None

\* C17: when the items view is shown and no getItems call is pending,
\* every item in the list shown belongs to the selected category.
C17_ItemsOfSelectedCategory ==
    (/\ currentView = "items"
     /\ \A t \in TaskIds : tasks[t].op # "getItems")
    => /\ selectedCategory # None
       /\ \A i \in items : i.categoryId = Get(selectedCategory).id

\* C18: a recorder that is recording is the one the mediaRecorder field
\* refers to, and isRecording is set.
C18_RecordingCanBeStopped ==
    \A r \in 1..Len(recorders) :
        recorders[r].state = "recording"
        => isRecording /\ mediaRecorder = Some(r)

\* C19: the stop event of a recorder that was made before the latest form
\* reset leaves recordedSoundBlob and recordedSoundUrl null.
C19_StaleRecordingIsDropped ==
    [][\A r \in 1..MaxStarts :
          (OnStop(r) /\ r \in staleRecorders)
          => recordedSoundBlob' = None /\ recordedSoundUrl' = None
      ]_vars

\* C20: a confirmDeletion that has run to its end leaves isDeleting false
\* and deleteConfirmation null, whether its calls went through or threw;
\* and isDeleting is set only while a confirmDeletion is suspended on a
\* DatabaseService call.
C20_DeletionAlwaysFinishes ==
    [][/\ ConfirmDeletion
              => \/ /\ isDeleting'
                    /\ \E t \in TaskIds : tasks'[t].kind = "confirmDeletion"
                 \/ /\ ~isDeleting'
                    /\ deleteConfirmation' = None
                    /\ lastDeletion' # None
       /\ \A t \in TaskIds :
              (/\ tasks[t].kind = "confirmDeletion"
               /\ RunGetCategories(t) \/ RunGetItems(t) \/ RequestFails(t))
              => ~isDeleting' /\ deleteConfirmation' = None
       /\ isDeleting'
              => \E t \in TaskIds : tasks'[t].kind = "confirmDeletion"
      ]_vars

\* a confirmed deletion has run to its end through its catch block, with
\* the flag and the confirmation cleared
C20_Witness ==
    /\ lastDeletion # None
    /\ Get(lastDeletion).failed
    /\ lastError = Some("TypeError")
    /\ ~isDeleting
    /\ deleteConfirmation = None

====
